---- MODULE Spec2Model ----
(***************************************************************************)
(* The conversation-session engine of the matrix microservice: package     *)
(* session (Manager, Session) as concatenated in                           *)
(* src/internal/server/server.go lines 773-1075, and the callers that      *)
(* drive it (a message handler calls GetOrCreateSession, then              *)
(* ExecuteCommand).                                                        *)
(*                                                                         *)
(* Strings are sequences of one-character strings, so that the             *)
(* sanitisation of GetSessionKey and the quoting of shellEscape are        *)
(* computed character by character as strings.ReplaceAll does.             *)
(* Session records live in a heap indexed by record identifiers (the Go    *)
(* pointers); m.sessions maps a key to a record identifier.  Records no    *)
(* longer referenced by the map or by a goroutine are garbage collected.   *)
(* Time is a discrete clock; durations are in clock ticks.                 *)
(***************************************************************************)
EXTENDS Integers, Sequences, FiniteSets, TLC

\* ------------------------------------------------------------------ bounds

\* The clock stops advancing at MaxTime.
MaxTime == 2

\* At most MaxCalls inbound messages are handled (GetOrCreateSession calls).
MaxCalls == 2

\* The client's clock stops advancing at MaxClock (in units of 30 seconds).
MaxClock == 26

\* ------------------------------------------------------- program constants

\* m.sessionTimeout, in clock ticks (NewManager: seconds from configuration).
SessionTimeout == 1

\* The fixed execution timeout of ExecuteCommand (60 * time.Minute), in ticks.
CmdTimeout == 2

\* The nil *Session.
Nil == 0

\* --------------------------------------------------------------- strings

Empty == << >>

Range(f) == { f[x] : x \in DOMAIN f }

\* s[i..] starts with the non-empty sequence old
StartsWithAt(s, i, old) ==
    /\ i + Len(old) - 1 <= Len(s)
    /\ \A j \in 1..Len(old) : s[i + j - 1] = old[j]

RECURSIVE ReplaceFrom(_, _, _, _)
ReplaceFrom(s, i, old, new) ==
    IF i > Len(s) THEN Empty
    ELSE IF StartsWithAt(s, i, old)
         THEN new \o ReplaceFrom(s, i + Len(old), old, new)
         ELSE <<s[i]>> \o ReplaceFrom(s, i + 1, old, new)

\* strings.ReplaceAll(s, old, new) for a non-empty old: the non-overlapping
\* occurrences of old, found left to right, are replaced by new.
ReplaceAll(s, old, new) == ReplaceFrom(s, 1, old, new)

\* The three placeholders of a command template.
MESSAGE == <<"{", "{", ".", "M", "E", "S", "S", "A", "G", "E", "}", "}">>
CONTEXT == <<"{", "{", ".", "C", "O", "N", "T", "E", "X", "T", "}", "}">>
SESSION == <<"{", "{", ".", "S", "E", "S", "S", "I", "O", "N", "}", "}">>

\* "'" + strings.ReplaceAll(s, "'", "'\\''") + "'"
shellEscape(s) == <<"'">> \o ReplaceAll(s, <<"'">>, <<"'", "\\", "'", "'">>) \o <<"'">>

\* The three successive ReplaceAll calls of ExecuteCommand.
Expand(commandTemplate, msg, context, sessionFile) ==
    LET c1 == ReplaceAll(commandTemplate, MESSAGE, shellEscape(msg))
        c2 == ReplaceAll(c1, CONTEXT, shellEscape(context))
    IN  ReplaceAll(c2, SESSION, shellEscape(sessionFile))

\* ----------------------------------------------------------------- inputs

\* Thread root event IDs a caller may pass (non-empty).
T1 == <<"$", "t", "-", "1">>
T2 == <<"$", "t", "_", "1">>
T3 == <<"@", "a", "_", "b", "_", "1">>
ThreadRoots == {T1, T2, T3}

\* User IDs.
UA == <<"@", "a", ":", "b", ":", "1">>
UB == <<"@", "a", "_", "b", ":", "1">>
Users == {UA, UB}

\* Command templates.
TplA == <<"e", " ">> \o MESSAGE
TplB == <<"p", " ">> \o CONTEXT \o <<" ">> \o MESSAGE \o <<" ">> \o SESSION
Templates == {Empty, TplA, TplB}

\* Message texts.
Messages == {<<"i", "t", "'", "s">>}

\* Texts an external command may print.
Outputs == {<<"o">>, <<"k">>}

\* m.sessionDir
SessionDir == <<"/", "d">>

\* The goroutines that handle inbound messages.
ThreadOrder == <<"g1", "g2">>
Threads == Range(ThreadOrder)

\* The single caller of the sequential scenarios.
Caller == "g1"

\* Error values of ExecuteCommand.
NoError == "nil"
ErrNoTemplate == "no command template configured"
ErrFailed == "command failed"
ErrTimedOut == "command timed out"

\* ------------------------------------------------------------------ state

VARIABLES
    sessions,        \* m.sessions: key -> record identifier
    heap,            \* record identifier -> Session
    defaultCommand,  \* m.defaultCommand
    now,             \* the clock read by time.Now()
    calls,           \* how many GetOrCreateSession calls were made
    pc,              \* per goroutine: where it is
    arg,             \* per goroutine: the arguments of its GetOrCreateSession call
    sess,            \* per goroutine: the *Session it holds
    cmdline,         \* per goroutine: fullCommand handed to sh -c
    started,         \* per goroutine: when its select began waiting
    ret,             \* per goroutine: what ExecuteCommand returns
    ctx0,            \* per goroutine: session.Context when the call took the lock
    message,         \* per goroutine: the message parameter of ExecuteCommand
    proc,            \* per goroutine: the sh process of its ExecuteCommand call
    mutex,           \* m.mutex: "unlocked" or its holder
    stopCleanup,     \* m.stopCleanup: "open" or "closed"
    ticker,          \* a tick is waiting in ticker.C
    loop,            \* where cleanupLoop is
    pass,            \* the Cleanup pass of cleanupLoop: its time.Now() and the keys to visit
    count,           \* per goroutine: what GetSessionCount returned
    enableCommands,  \* s.config.Webhook.EnableCommands
    inbound,         \* per goroutine: the message HandleMessage is handling
    sent,            \* per goroutine: what the handler sent for its message
    requestedSessions, \* c.requestedSessions: megolm session ID -> sessionRequestInfo
    clock,           \* the clock the client reads, in units of 30 seconds
    requested        \* the session ID and the result of the last shouldRequestSession

\* the state of the background eviction loop
loopVars == <<stopCleanup, ticker, loop, pass>>

\* the state of the server's message handlers
serverVars == <<enableCommands, inbound, sent>>

\* the state of the Matrix client's key request throttle
clientVars == <<requestedSessions, clock, requested>>

vars == <<sessions, heap, defaultCommand, now, calls, pc, arg, sess, cmdline, started, ret,
          ctx0, message, proc, mutex, loopVars, count, serverVars, clientVars>>

\* no shouldRequestSession call was made yet
NoRequest == [sessionID |-> "", ok |-> FALSE]

NoArg == [root |-> Empty, user |-> Empty, tpl |-> Empty]
NoRet == [out |-> Empty, err |-> NoError]
NoReply == << >>
NoPass == [on |-> FALSE, at |-> 0, todo |-> {}]
NoInbound == [sender |-> Empty, prefixed |-> FALSE, cmdName |-> Empty, args |-> Empty,
              inReplyTo |-> Empty, threadRoot |-> Empty, eventID |-> Empty]

\* ----------------------------------------------------------- key resolver

\* mutant: the key is derived from the user whatever the thread root
GetSessionKeyOfUser(threadRootEventID, userID) ==
    ReplaceAll(userID, <<":">>, <<"_">>)

\* mutant: a key derived from a thread root is marked as such
GetSessionKeyTagged(threadRootEventID, userID) ==
    IF threadRootEventID # Empty
    THEN <<"t">> \o ReplaceAll(ReplaceAll(threadRootEventID, <<"$">>, Empty), <<"-">>, <<"_">>)
    ELSE ReplaceAll(userID, <<":">>, <<"_">>)

GetSessionKey(threadRootEventID, userID) ==
    IF threadRootEventID # Empty
    THEN ReplaceAll(ReplaceAll(threadRootEventID, <<"$">>, Empty), <<"-">>, <<"_">>)
    ELSE ReplaceAll(userID, <<":">>, <<"_">>)

\* filepath.Join(m.sessionDir, fmt.Sprintf("thread_%s.jsonl", key)), for keys
\* without path separators or dots
SessionFileOf(key) ==
    SessionDir \o <<"/">> \o <<"t", "h", "r", "e", "a", "d", "_">> \o key
               \o <<".", "j", "s", "o", "n", "l">>

\* ------------------------------------------------------------------- heap

\* a fresh record identifier
NewRid(h) == CHOOSE i \in 1..(Cardinality(DOMAIN h) + 1) : i \notin DOMAIN h

\* the records still referenced by the map s or by a goroutine (held)
Collect(h, s, held) ==
    [r \in (Range(s) \cup Range(held)) \cap DOMAIN h |-> h[r]]

\* the map without the keys in gone
Without(s, gone) == [k \in DOMAIN s \ gone |-> s[k]]

InitManager ==
    /\ sessions = << >>
    /\ heap = << >>
    /\ defaultCommand \in {Empty, TplA}
    /\ now = 0
    /\ calls = 0
    /\ pc = [t \in Threads |-> "idle"]
    /\ arg = [t \in Threads |-> NoArg]
    /\ sess = [t \in Threads |-> Nil]
    /\ cmdline = [t \in Threads |-> Empty]
    /\ started = [t \in Threads |-> 0]
    /\ ret = [t \in Threads |-> NoRet]
    /\ ctx0 = [t \in Threads |-> Empty]
    /\ message = [t \in Threads |-> Empty]
    /\ proc = [t \in Threads |-> "none"]
    /\ mutex = "unlocked"
    /\ stopCleanup = "open"
    /\ ticker = FALSE
    /\ loop = "select"
    /\ pass = NoPass
    /\ count = [t \in Threads |-> 0]
    /\ inbound = [t \in Threads |-> NoInbound]
    /\ sent = [t \in Threads |-> NoReply]
    /\ requestedSessions = << >>
    /\ clock = 0
    /\ requested = NoRequest

\* a manager used on its own, as in the tests of the session package
Init == InitManager /\ enableCommands = FALSE

\* a server, with command execution enabled in its configuration or not
InitServer == InitManager /\ enableCommands \in BOOLEAN

\* ---------------------------------------------------------------- actions

\* time passes
Tick ==
    /\ now < MaxTime
    /\ now' = now + 1
    /\ UNCHANGED <<sessions, heap, defaultCommand, calls, pc, arg, sess, cmdline, started, ret,
                   ctx0, message, proc, mutex, loopVars, count, serverVars, clientVars>>

\* mutant: the store lock stays with its holder when the call returns
NoUnlock(holder) == holder

\* defer m.mutex.Unlock(): the store lock taken by holder at the start of the
\* call is free again when the call returns
DeferredUnlock(holder) == "unlocked"

\* mutant: a new session starts without a template of its own
NewSessionNoTemplate(key, threadRootEventID, userID, commandTemplate) ==
    [ID |-> key, UserID |-> userID, ThreadRootEvent |-> threadRootEventID,
     LastActivity |-> now, Context |-> Empty, Command |-> Empty,
     Mutex |-> "unlocked", SessionFile |-> SessionFileOf(key)]

\* the Session GetOrCreateSession stores for a key that is not in the map
NewSession(key, threadRootEventID, userID, commandTemplate) ==
    [ID |-> key, UserID |-> userID, ThreadRootEvent |-> threadRootEventID,
     LastActivity |-> now, Context |-> Empty, Command |-> commandTemplate,
     Mutex |-> "unlocked", SessionFile |-> SessionFileOf(key)]

\* mutant: a non-empty template of the call always replaces the stored one
TouchedOverwrite(session, userID, commandTemplate) ==
    [session EXCEPT !.LastActivity = now,
                    !.Command = IF commandTemplate # Empty THEN commandTemplate ELSE @]

\* the Session GetOrCreateSession leaves for a key that is in the map
Touched(session, userID, commandTemplate) ==
    [session EXCEPT !.LastActivity = now,
                    !.Command = IF commandTemplate # Empty /\ @ = Empty
                                THEN commandTemplate ELSE @]

\* Manager.GetOrCreateSession, whole body under m.mutex.Lock()
GetOrCreateSession(t, threadRootEventID, userID, commandTemplate) ==
    LET key == GetSessionKey(threadRootEventID, userID)
        exists == key \in DOMAIN sessions
        rid == IF exists THEN sessions[key] ELSE NewRid(heap)
        rec == IF exists THEN Touched(heap[rid], userID, commandTemplate)
               ELSE NewSession(key, threadRootEventID, userID, commandTemplate)
    IN  /\ pc[t] \in {"idle", "resolved"}
        /\ calls < MaxCalls
        /\ calls' = calls + 1
        /\ mutex = "unlocked"
        /\ mutex' = DeferredUnlock(t)
        /\ sessions' = IF exists THEN sessions
                       ELSE [k \in DOMAIN sessions \cup {key} |->
                                IF k = key THEN rid ELSE sessions[k]]
        /\ heap' = [r \in DOMAIN heap \cup {rid} |-> IF r = rid THEN rec ELSE heap[r]]
        /\ sess' = [sess EXCEPT ![t] = rid]
        /\ arg' = [arg EXCEPT ![t] = [root |-> threadRootEventID, user |-> userID,
                                      tpl |-> commandTemplate]]
        /\ pc' = [pc EXCEPT ![t] = "got"]
        /\ UNCHANGED <<defaultCommand, now, cmdline, started, ret, ctx0, message, proc,
                       loopVars, count, serverVars, clientVars>>

\* mutant: a session idle for exactly the threshold is removed too
ExpiredAtThreshold(session) == now - session.LastActivity >= SessionTimeout

\* Manager.Cleanup, whole body under m.mutex.Lock()
Expired(session) == now - session.LastActivity > SessionTimeout

CleanupBody(caller) ==
    LET gone == { k \in DOMAIN sessions : Expired(heap[sessions[k]]) }
    IN  /\ mutex = "unlocked"
        /\ mutex' = DeferredUnlock(caller)
        /\ sessions' = Without(sessions, gone)
        /\ heap' = Collect(heap, sessions', sess)

\* a Cleanup pass at any moment, whoever starts it
Cleanup ==
    /\ CleanupBody("cleanup")
    /\ UNCHANGED <<defaultCommand, now, calls, pc, arg, sess, cmdline, started, ret, ctx0,
                   message, proc, loopVars, count, serverVars, clientVars>>

\* the ticker of cleanupLoop puts a tick into ticker.C (which holds one)
TickerFire ==
    /\ loop # "stopped"
    /\ ~ticker
    /\ ticker' = TRUE
    /\ UNCHANGED <<sessions, heap, defaultCommand, now, calls, pc, arg, sess, cmdline, started,
                   ret, ctx0, message, proc, mutex, stopCleanup, loop, count, pass,
                   serverVars, clientVars>>

\* cleanupLoop, select: case <-ticker.C is chosen (it can be chosen whenever
\* a tick is waiting, whether or not m.stopCleanup is closed too)
LoopTick ==
    /\ loop = "select"
    /\ ticker
    /\ ticker' = FALSE
    /\ loop' = "cleanup"
    /\ UNCHANGED <<sessions, heap, defaultCommand, now, calls, pc, arg, sess, cmdline, started,
                   ret, ctx0, message, proc, mutex, stopCleanup, count, pass,
                   serverVars, clientVars>>

\* cleanupLoop: m.Cleanup() of the tick case, then back to the select
LoopCleanup ==
    /\ loop = "cleanup"
    /\ ~pass.on
    /\ CleanupBody("cleanup")
    /\ loop' = "select"
    /\ UNCHANGED <<defaultCommand, now, calls, pc, arg, sess, cmdline, started, ret, ctx0,
                   message, proc, stopCleanup, ticker, count, pass,
                   serverVars, clientVars>>

\* mutant: the pass does not take the store lock
PassNoLock(holder) == "unlocked"

\* Manager.Cleanup: m.mutex.Lock()
PassLock(holder) == holder

\* cleanupLoop calls m.Cleanup(), step by step: the pass takes the store
\* lock, reads the clock and begins to range over the map
PassBegin ==
    /\ loop = "cleanup"
    /\ ~pass.on
    /\ mutex = "unlocked"
    /\ mutex' = PassLock("cleanup")
    /\ pass' = [on |-> TRUE, at |-> now, todo |-> DOMAIN sessions]
    /\ UNCHANGED <<sessions, heap, defaultCommand, now, calls, pc, arg, sess, cmdline, started,
                   ret, ctx0, message, proc, stopCleanup, ticker, loop, count, serverVars, clientVars>>

\* Manager.Cleanup: one iteration of the range over m.sessions (in any
\* order): the entry is deleted when its session has expired
PassStep ==
    /\ pass.on
    /\ \E key \in pass.todo :
          /\ pass' = [pass EXCEPT !.todo = @ \ {key}]
          /\ sessions' = IF key \in DOMAIN sessions
                            /\ pass.at - heap[sessions[key]].LastActivity > SessionTimeout
                         THEN Without(sessions, {key}) ELSE sessions
    /\ heap' = Collect(heap, sessions', sess)
    /\ UNCHANGED <<defaultCommand, now, calls, pc, arg, sess, cmdline, started, ret, ctx0,
                   message, proc, mutex, stopCleanup, ticker, loop, count, serverVars, clientVars>>

\* Manager.Cleanup returns: the deferred m.mutex.Unlock() runs and
\* cleanupLoop is back at its select
PassEnd ==
    /\ pass.on
    /\ pass.todo = {}
    /\ pass' = NoPass
    /\ mutex' = "unlocked"
    /\ loop' = "select"
    /\ UNCHANGED <<sessions, heap, defaultCommand, now, calls, pc, arg, sess, cmdline, started,
                   ret, ctx0, message, proc, stopCleanup, ticker, count, serverVars, clientVars>>

\* cleanupLoop, select: case <-m.stopCleanup is chosen; the loop returns and
\* the deferred ticker.Stop() runs
LoopStop ==
    /\ loop = "select"
    /\ stopCleanup = "closed"
    /\ loop' = "stopped"
    /\ UNCHANGED <<sessions, heap, defaultCommand, now, calls, pc, arg, sess, cmdline, started,
                   ret, ctx0, message, proc, mutex, stopCleanup, ticker, count, pass,
                   serverVars, clientVars>>

\* mutant: a second Stop finds the channel closed and does nothing
StopIdempotent(t) ==
    /\ pc[t] = "idle"
    /\ stopCleanup' = "closed"
    /\ UNCHANGED <<sessions, heap, defaultCommand, now, calls, pc, arg, sess, cmdline, started,
                   ret, ctx0, message, proc, mutex, ticker, loop, count, pass, serverVars, clientVars>>

\* Manager.Stop: close(m.stopCleanup); closing the closed channel panics
Stop(t) ==
    /\ pc[t] = "idle"
    /\ IF stopCleanup = "open"
       THEN stopCleanup' = "closed" /\ UNCHANGED pc
       ELSE pc' = [pc EXCEPT ![t] = "panic"] /\ UNCHANGED stopCleanup
    /\ UNCHANGED <<sessions, heap, defaultCommand, now, calls, arg, sess, cmdline, started, ret,
                   ctx0, message, proc, mutex, ticker, loop, count, pass,
                   serverVars, clientVars>>

\* mutant: the lock is taken without waiting for its holder
MutexFreeAnyway(session) == TRUE

\* session.Mutex.Lock() can return
MutexFree(session) == session.Mutex = "unlocked"

\* mutant: the default template is preferred to the session's
EffectiveTemplateDefaultFirst(session) ==
    IF defaultCommand # Empty THEN defaultCommand ELSE session.Command

\* commandTemplate := session.Command; if empty, m.defaultCommand
EffectiveTemplate(session) ==
    IF session.Command # Empty THEN session.Command ELSE defaultCommand

\* mutant: the call takes the lock without recording the access
EnteredUntouched(session, t) == [session EXCEPT !.Mutex = t]

\* session.Mutex.Lock(); session.LastActivity = time.Now()
Entered(session, t) == [session EXCEPT !.Mutex = t, !.LastActivity = now]

\* Manager.ExecuteCommand from its entry to the select: takes the session lock,
\* sets LastActivity, resolves the template and either fails for want of one
\* or expands it and starts sh -c in a goroutine.
ExecStart(t, msg) ==
    LET r == sess[t]
        tpl == EffectiveTemplate(heap[r])
    IN  /\ pc[t] = "got"
        /\ MutexFree(heap[r])
        /\ heap' = [heap EXCEPT ![r] = Entered(@, t)]
        /\ ctx0' = [ctx0 EXCEPT ![t] = heap[r].Context]
        /\ message' = [message EXCEPT ![t] = msg]
        /\ IF tpl = Empty
           THEN /\ ret' = [ret EXCEPT ![t] = [out |-> Empty, err |-> ErrNoTemplate]]
                /\ pc' = [pc EXCEPT ![t] = "ret"]
                /\ UNCHANGED <<cmdline, started, proc>>
           ELSE /\ cmdline' = [cmdline EXCEPT ![t] =
                       Expand(tpl, msg, heap[r].Context, heap[r].SessionFile)]
                /\ started' = [started EXCEPT ![t] = now]
                /\ proc' = [proc EXCEPT ![t] = "running"]
                /\ pc' = [pc EXCEPT ![t] = "running"]
                /\ UNCHANGED ret
        /\ UNCHANGED <<sessions, defaultCommand, now, calls, arg, sess, mutex, loopVars, count,
                       serverVars, clientVars>>

\* mutant: the context is written whatever the result
CompletedAlways(session, how, outputStr) == [session EXCEPT !.Context = outputStr]

\* mutant: the output is appended to the context
CompletedAppend(session, how, outputStr) ==
    IF how = "ok" THEN [session EXCEPT !.Context = @ \o outputStr] ELSE session

\* what the select's first case does with the result of cmd.CombinedOutput():
\* how is "ok" (err == nil), "timeout" (err != nil and the output or the error
\* text looks like a timeout) or "failed" (any other err != nil)
Completed(session, how, outputStr) ==
    IF how = "ok" THEN [session EXCEPT !.Context = outputStr] ELSE session

Returned(how, outputStr) ==
    IF how = "ok" THEN [out |-> outputStr, err |-> NoError]
    ELSE IF how = "timeout" THEN [out |-> Empty, err |-> ErrTimedOut]
    ELSE [out |-> Empty, err |-> ErrFailed]

\* case result := <-done
ExecDone(t, how, outputStr) ==
    LET r == sess[t]
    IN  /\ pc[t] = "running"
        /\ heap' = [heap EXCEPT ![r] = Completed(heap[r], how, outputStr)]
        /\ ret' = [ret EXCEPT ![t] = Returned(how, outputStr)]
        /\ proc' = [proc EXCEPT ![t] = "exited"]
        /\ pc' = [pc EXCEPT ![t] = "ret"]
        /\ UNCHANGED <<sessions, defaultCommand, now, calls, arg, sess, cmdline, started, ctx0,
                       message, mutex, loopVars, count, serverVars, clientVars>>

\* mutant: the select has no timer case
TimerNever(t) == FALSE

\* time.After(timeout) has fired for the call of t
TimerFired(t) == now - started[t] >= CmdTimeout

\* case <-time.After(timeout): the process is killed
ExecTimeout(t) ==
    /\ pc[t] = "running"
    /\ TimerFired(t)
    /\ ret' = [ret EXCEPT ![t] = [out |-> Empty, err |-> ErrTimedOut]]
    /\ proc' = [proc EXCEPT ![t] = "killed"]
    /\ pc' = [pc EXCEPT ![t] = "ret"]
    /\ UNCHANGED <<sessions, heap, defaultCommand, now, calls, arg, sess, cmdline, started, ctx0,
                   message, mutex, loopVars, count, serverVars, clientVars>>

\* mutant: the lock is not released when the call returns
StillLocked(session) == session

\* defer session.Mutex.Unlock()
Unlocked(session) == [session EXCEPT !.Mutex = "unlocked"]

\* ExecuteCommand returns: the deferred session.Mutex.Unlock() runs and the
\* caller lets go of the session; a handler of the server goes on to send
\* what was returned
ExecReturn(t) ==
    LET r == sess[t]
    IN  /\ pc[t] = "ret"
        /\ sess' = [sess EXCEPT ![t] = Nil]
        /\ arg' = [arg EXCEPT ![t] = NoArg]
        /\ heap' = Collect([heap EXCEPT ![r] = Unlocked(@)], sessions, sess')
        /\ pc' = [pc EXCEPT ![t] = IF inbound[t] = NoInbound THEN "idle" ELSE "reply"]
        /\ cmdline' = [cmdline EXCEPT ![t] = Empty]
        /\ started' = [started EXCEPT ![t] = 0]
        /\ ret' = [ret EXCEPT ![t] = IF inbound[t] = NoInbound THEN NoRet ELSE @]
        /\ ctx0' = [ctx0 EXCEPT ![t] = Empty]
        /\ message' = [message EXCEPT ![t] = Empty]
        /\ proc' = [proc EXCEPT ![t] = "none"]
        /\ UNCHANGED <<sessions, defaultCommand, now, calls, mutex, loopVars, count, serverVars, clientVars>>

\* Manager.UpdateContext, whole body under the session lock
UpdateContext(t, context) ==
    LET r == sess[t]
    IN  /\ pc[t] = "got"
        /\ MutexFree(heap[r])
        /\ heap' = [heap EXCEPT ![r].Context = context, ![r].LastActivity = now]
        /\ UNCHANGED <<sessions, defaultCommand, now, calls, pc, arg, sess, cmdline, started, ret,
                       ctx0, message, proc, mutex, loopVars, count, serverVars, clientVars>>

\* mutant: a lookup counts as an access and sets LastActivity
GetSessionTouching(t, threadRootEventID, userID) ==
    LET key == GetSessionKey(threadRootEventID, userID)
    IN  /\ pc[t] \in {"idle", "swept"}
        /\ mutex = "unlocked"
        /\ sess' = [sess EXCEPT ![t] = IF key \in DOMAIN sessions THEN sessions[key]
                                                                 ELSE Nil]
        /\ arg' = [arg EXCEPT ![t] = [root |-> threadRootEventID, user |-> userID,
                                      tpl |-> Empty]]
        /\ heap' = Collect([r \in DOMAIN heap |->
                              IF key \in DOMAIN sessions /\ r = sessions[key]
                              THEN [heap[r] EXCEPT !.LastActivity = now] ELSE heap[r]],
                           sessions, sess')
        /\ pc' = [pc EXCEPT ![t] = "looked"]
        /\ UNCHANGED <<sessions, defaultCommand, now, calls, cmdline, started, ret, ctx0,
                       message, proc, mutex, loopVars, count, serverVars, clientVars>>

\* Manager.GetSession, whole body under m.mutex.RLock(): the record of the
\* key, or nil; no session is created or changed
GetSession(t, threadRootEventID, userID) ==
    LET key == GetSessionKey(threadRootEventID, userID)
    IN  /\ pc[t] \in {"idle", "swept"}
        /\ mutex = "unlocked"
        /\ sess' = [sess EXCEPT ![t] = IF key \in DOMAIN sessions THEN sessions[key]
                                                                 ELSE Nil]
        /\ arg' = [arg EXCEPT ![t] = [root |-> threadRootEventID, user |-> userID,
                                      tpl |-> Empty]]
        /\ heap' = Collect(heap, sessions, sess')
        /\ pc' = [pc EXCEPT ![t] = "looked"]
        /\ UNCHANGED <<sessions, defaultCommand, now, calls, cmdline, started, ret, ctx0,
                       message, proc, mutex, loopVars, count, serverVars, clientVars>>

\* mutant: the scan keeps the session that was active longest ago
LeastRecent(userID) ==
    LET mine == { r \in Range(sessions) : heap[r].UserID = userID }
    IN  IF mine = {} THEN {Nil}
        ELSE { r \in mine : \A q \in mine : heap[r].LastActivity <= heap[q].LastActivity }

\* what the scan of GetSessionForUser can return: nil when no session of the
\* map has the owner, else a session of the owner that no other one of the
\* owner is After (the map is ranged over in any order)
MostRecent(userID) ==
    LET mine == { r \in Range(sessions) : heap[r].UserID = userID }
    IN  IF mine = {} THEN {Nil}
        ELSE { r \in mine : \A q \in mine : heap[q].LastActivity <= heap[r].LastActivity }

\* Manager.GetSessionForUser, whole body under m.mutex.RLock()
GetSessionForUser(t, userID) ==
    /\ pc[t] \in {"idle", "swept"}
    /\ mutex = "unlocked"
    /\ \E recent \in MostRecent(userID) : sess' = [sess EXCEPT ![t] = recent]
    /\ arg' = [arg EXCEPT ![t] = [root |-> Empty, user |-> userID, tpl |-> Empty]]
    /\ heap' = Collect(heap, sessions, sess')
    /\ pc' = [pc EXCEPT ![t] = "looked"]
    /\ UNCHANGED <<sessions, defaultCommand, now, calls, cmdline, started, ret, ctx0,
                   message, proc, mutex, loopVars, count, serverVars, clientVars>>

\* Manager.GetSessionCount, whole body under m.mutex.RLock()
GetSessionCount(t) ==
    /\ pc[t] \in {"idle", "swept"}
    /\ mutex = "unlocked"
    /\ count' = [count EXCEPT ![t] = Cardinality(DOMAIN sessions)]
    /\ sess' = [sess EXCEPT ![t] = Nil]
    /\ heap' = Collect(heap, sessions, sess')
    /\ pc' = [pc EXCEPT ![t] = "looked"]
    /\ UNCHANGED <<sessions, defaultCommand, now, calls, arg, cmdline, started, ret, ctx0,
                   message, proc, mutex, loopVars, serverVars, clientVars>>

\* a caller that holds a session calls Manager.Cleanup itself, as TestCleanup
\* does after its sleep
CallCleanup(t) ==
    /\ pc[t] \in {"got", "looked"}
    /\ CleanupBody(t)
    /\ pc' = [pc EXCEPT ![t] = "swept"]
    /\ UNCHANGED <<defaultCommand, now, calls, arg, sess, cmdline, started, ret, ctx0,
                   message, proc, loopVars, count, serverVars, clientVars>>

\* the caller lets go of a session it got without executing on it
Discard(t) ==
    /\ pc[t] \in {"got", "looked", "swept"}
    /\ sess' = [sess EXCEPT ![t] = Nil]
    /\ arg' = [arg EXCEPT ![t] = NoArg]
    /\ heap' = Collect(heap, sessions, sess')
    /\ count' = [count EXCEPT ![t] = 0]
    /\ pc' = [pc EXCEPT ![t] = "idle"]
    /\ UNCHANGED <<sessions, defaultCommand, now, calls, cmdline, started, ret, ctx0, message,
                   proc, mutex, loopVars, serverVars, clientVars>>

\* ----------------------------------------------------------------- server

\* s.config.Webhook.CommandTemplates: the command "p" has a template of its
\* own, every other command uses s.config.Webhook.DefaultCommand, which is
\* the default template the manager was made with (defaultCommand)
CommandTemplates == [n \in {<<"p">>} |-> TplB]

ErrNotConfigured == "No command template configured"

\* what a handler sends
WebhookDispatch == <<[kind |-> "webhook", out |-> Empty, err |-> NoError]>>
ErrorReply(err) == <<[kind |-> "error", out |-> Empty, err |-> err]>>
OutputReply(out) == <<[kind |-> "output", out |-> out, err |-> NoError]>>

\* mutant: the prefix alone selects command execution
CommandModeByPrefix(m) == m.prefixed

\* HandleMessage: s.config.Webhook.EnableCommands &&
\* s.webhook.HasCommandPrefix(message); what HasCommandPrefix answers for a
\* message is the field prefixed of the message
CommandMode(m) == enableCommands /\ m.prefixed

\* mutant: a built-in template is used when none is configured
TemplateForBuiltIn(cmdName) ==
    IF cmdName # Empty /\ cmdName \in DOMAIN CommandTemplates THEN CommandTemplates[cmdName]
    ELSE IF defaultCommand # Empty THEN defaultCommand
    ELSE TplA

\* handleCommandExecution: the command-specific template, else the default
TemplateFor(cmdName) ==
    LET tpl == IF cmdName # Empty /\ cmdName \in DOMAIN CommandTemplates
               THEN CommandTemplates[cmdName] ELSE Empty
    IN  IF tpl # Empty THEN tpl ELSE defaultCommand

\* mutant: the thread root of the session is always the event ID
SessionThreadRootOfEvent(existingSession, m) == m.eventID

\* handleCommandExecution: sessionThreadRoot is the ID (the key) of the
\* sender's existing session when there is one, and the event ID when it is
\* still empty after that
SessionThreadRoot(existingSession, m) ==
    LET sessionThreadRoot == IF existingSession # Nil THEN heap[existingSession].ID
                             ELSE Empty
    IN  IF sessionThreadRoot = Empty THEN m.eventID ELSE sessionThreadRoot

\* Server.HandleMessage up to the call of GetOrCreateSession: a message that
\* is not a command goes to the webhook; for a command the handler looks up
\* the sender's most recent session when the message is a reply, takes that
\* session's key or else the event ID as the thread root of the session, and
\* resolves the template, sending an error when there is none.
HandleMessage(t, m) ==
    /\ pc[t] = "idle"
    /\ inbound' = [inbound EXCEPT ![t] = m]
    /\ IF ~CommandMode(m)
       THEN /\ sent' = [sent EXCEPT ![t] = WebhookDispatch]
            /\ pc' = [pc EXCEPT ![t] = "replied"]
            /\ UNCHANGED arg
       ELSE LET isReply == m.inReplyTo # Empty /\ m.inReplyTo[1] = "$"
                commandTemplate == TemplateFor(m.cmdName)
            IN  /\ isReply => mutex = "unlocked"
                /\ \E existingSession \in (IF isReply THEN MostRecent(m.sender) ELSE {Nil}) :
                      LET sessionThreadRoot == SessionThreadRoot(existingSession, m)
                      IN  IF commandTemplate = Empty
                          THEN /\ sent' = [sent EXCEPT ![t] = ErrorReply(ErrNotConfigured)]
                               /\ pc' = [pc EXCEPT ![t] = "replied"]
                               /\ UNCHANGED arg
                          ELSE /\ arg' = [arg EXCEPT ![t] =
                                      [root |-> sessionThreadRoot, user |-> m.sender,
                                       tpl |-> commandTemplate]]
                               /\ pc' = [pc EXCEPT ![t] = "resolved"]
                               /\ UNCHANGED sent
    /\ UNCHANGED <<sessions, heap, defaultCommand, now, calls, sess, cmdline, started, ret, ctx0,
                   message, proc, mutex, loopVars, count, enableCommands, clientVars>>

\* handleCommandExecution: session := s.sessionMgr.GetOrCreateSession(...)
HandleGetOrCreate(t) ==
    /\ pc[t] = "resolved"
    /\ GetOrCreateSession(t, arg[t].root, arg[t].user, arg[t].tpl)

\* handleCommandExecution: s.sessionMgr.ExecuteCommand(session, args) begins
HandleExecute(t) ==
    /\ inbound[t] # NoInbound
    /\ ExecStart(t, inbound[t].args)

\* mutant: the output is sent whatever it is, after the error if there is one
RepliesAlways(r) ==
    (IF r.err # NoError THEN ErrorReply(r.err) ELSE NoReply) \o OutputReply(r.out)

\* handleCommandExecution: what is sent for the values reply, err that
\* ExecuteCommand returned
Replies(r) ==
    IF r.err # NoError THEN ErrorReply(r.err)
    ELSE IF r.out # Empty THEN OutputReply(r.out)
    ELSE NoReply

\* handleCommandExecution after ExecuteCommand returned: one error reply, or
\* one reply with the output when it is not empty
Reply(t) ==
    /\ pc[t] = "reply"
    /\ sent' = [sent EXCEPT ![t] = Replies(ret[t])]
    /\ pc' = [pc EXCEPT ![t] = "replied"]
    /\ UNCHANGED <<sessions, heap, defaultCommand, now, calls, arg, sess, cmdline, started, ret,
                   ctx0, message, proc, mutex, loopVars, count, enableCommands, inbound, clientVars>>

\* HandleMessage returns
HandleReturn(t) ==
    /\ pc[t] = "replied"
    /\ pc' = [pc EXCEPT ![t] = "idle"]
    /\ inbound' = [inbound EXCEPT ![t] = NoInbound]
    /\ sent' = [sent EXCEPT ![t] = NoReply]
    /\ ret' = [ret EXCEPT ![t] = NoRet]
    /\ arg' = [arg EXCEPT ![t] = NoArg]
    /\ UNCHANGED <<sessions, heap, defaultCommand, now, calls, sess, cmdline, started, ctx0,
                   message, proc, mutex, loopVars, count, enableCommands, clientVars>>

\* An inbound message is handled by the first goroutine that is free (idle
\* goroutines hold no state, so which one takes it makes no difference).
Dispatched(t) ==
    /\ pc[t] = "idle"
    /\ \A k \in 1..Len(ThreadOrder) :
          ThreadOrder[k] = t => \A j \in 1..(k - 1) : pc[ThreadOrder[j]] # "idle"

\* Concurrent handlers: each takes a message, resolves its session and
\* executes the command on it; the thread T1 and the non-threaded
\* conversation of one user, sessions created with or without a template.
ExecRoots == {T1, Empty}
ExecUsers == {UA}
ExecTemplates == {Empty, TplB}

Next ==
    \/ Tick
    \/ \E t \in Threads, r \in ExecRoots, u \in ExecUsers, c \in ExecTemplates :
          Dispatched(t) /\ GetOrCreateSession(t, r, u, c)
    \/ \E t \in Threads, m \in Messages : ExecStart(t, m)
    \/ \E t \in Threads, how \in {"ok", "timeout", "failed"}, o \in Outputs :
          ExecDone(t, how, o)
    \/ \E t \in Threads : ExecTimeout(t)
    \/ \E t \in Threads : ExecReturn(t)
    \/ Cleanup

Spec == Init /\ [][Next]_vars

\* One caller working through the store as the unit tests do: every thread
\* root, user and template; the caller lets go of the session it got.
NextStore ==
    \/ Tick
    \/ \E r \in ThreadRoots \cup {Empty}, u \in Users, c \in Templates :
          GetOrCreateSession(Caller, r, u, c)
    \/ Discard(Caller)
    \/ Cleanup

SpecStore == Init /\ [][NextStore]_vars

\* One caller executing commands in the sessions of the thread roots.
NextRoots ==
    \/ Tick
    \/ \E r \in ThreadRoots, u \in Users : GetOrCreateSession(Caller, r, u, TplA)
    \/ \E m \in Messages : ExecStart(Caller, m)
    \/ \E how \in {"ok", "failed"}, o \in Outputs : ExecDone(Caller, how, o)
    \/ ExecReturn(Caller)
    \/ Cleanup

SpecRoots == Init /\ [][NextRoots]_vars

\* One caller executing the three-placeholder template on one thread, with
\* messages and command outputs that hold quotes, shell metacharacters and
\* the placeholder markers themselves.
EscMessages == { <<"i", "t", "'", "s">>, <<"'", ";", "x">>, <<"\\", "'">>, CONTEXT, SESSION }
EscOutputs == { <<";", "x">>, <<"'", "o">>, SESSION }

NextEscape ==
    \/ Tick
    \/ GetOrCreateSession(Caller, T1, UA, TplB)
    \/ \E m \in EscMessages : ExecStart(Caller, m)
    \/ \E o \in EscOutputs : ExecDone(Caller, "ok", o)
    \/ ExecReturn(Caller)

SpecEscape == Init /\ [][NextEscape]_vars

\* Two goroutines using the manager side by side: executions on the thread
\* T1 and on the user's own session, and lookups, counts and sweeps made
\* while a command is running.
ParRoots == {T1, Empty}

Running == \E t \in Threads : pc[t] = "running"

NextPar ==
    \/ Tick
    \/ \E t \in Threads, r \in ParRoots :
          Dispatched(t) /\ GetOrCreateSession(t, r, UA, TplA)
    \/ \E t \in Threads, m \in Messages : ExecStart(t, m)
    \/ \E t \in Threads : ExecDone(t, "ok", <<"o">>)
    \/ \E t \in Threads : ExecReturn(t)
    \/ \E t \in Threads : Running /\ GetSession(t, T1, UA)
    \/ \E t \in Threads : Running /\ GetSessionForUser(t, UA)
    \/ \E t \in Threads : Running /\ GetSessionCount(t)
    \/ \E t \in Threads : pc[t] = "looked" /\ Discard(t)
    \/ Cleanup

SpecPar == Init /\ [][NextPar]_vars

\* One caller executing commands that may never finish. The clock advances,
\* a timer that has fired is served by the select and a call that can return
\* does; a command is started only while the clock of the model can still
\* reach its timeout.
NextLive ==
    \/ Tick
    \/ \E c \in {Empty, TplA} : GetOrCreateSession(Caller, T1, UA, c)
    \/ \E m \in Messages : now + CmdTimeout <= MaxTime /\ ExecStart(Caller, m)
    \/ \E how \in {"ok", "timeout", "failed"}, o \in Outputs : ExecDone(Caller, how, o)
    \/ ExecTimeout(Caller)
    \/ ExecReturn(Caller)

SpecLive ==
    /\ Init
    /\ [][NextLive]_vars
    /\ WF_vars(Tick)
    /\ WF_vars(ExecTimeout(Caller))
    /\ WF_vars(ExecReturn(Caller))

\* The server handling one inbound message after the other: any sender,
\* with or without the command prefix, as a reply or not, in the thread of
\* the first event or in no thread, each with a fresh event ID.
Digits == <<"1", "2", "3", "4", "5", "6", "7", "8", "9">>
EventID(k) == <<"$", "e", "-", Digits[k]>>
ReplyTo == <<"$", "r">>

FreshEventID ==
    LET used == { heap[r].ThreadRootEvent : r \in DOMAIN heap }
        k == CHOOSE i \in 1..(MaxCalls + 1) :
                /\ EventID(i) \notin used
                /\ \A j \in 1..(i - 1) : EventID(j) \in used
    IN  EventID(k)

InMessages ==
    { [sender |-> u, prefixed |-> n # Empty, cmdName |-> n, args |-> a, inReplyTo |-> i,
       threadRoot |-> r, eventID |-> FreshEventID] :
         u \in Users, n \in {Empty, <<"p">>, <<"c">>}, a \in Messages,
         i \in {Empty, ReplyTo}, r \in {Empty, EventID(1)} }

NextServer ==
    \/ Tick
    \/ \E m \in InMessages : HandleMessage(Caller, m)
    \/ HandleGetOrCreate(Caller)
    \/ HandleExecute(Caller)
    \/ \E how \in {"ok", "failed"} : ExecDone(Caller, how, <<"o">>)
    \/ ExecReturn(Caller)
    \/ Reply(Caller)
    \/ HandleReturn(Caller)

SpecServer == InitServer /\ [][NextServer]_vars

\* ------------------------------------------------- key request throttle

\* The megolm session IDs of the undecryptable events.
SessionIDs == {"s1", "s2"}

\* backoffDurations, in units of 30 seconds
BackoffDurations == <<1, 2, 4, 8, 10>>

\* the age above which an entry is cleaned up: 10 minutes, in units of 30 seconds
OldEntryAge == 20

\* mutant: every re-request waits for the first backoff duration only
MinWaitFirst(retryCount) == BackoffDurations[1]

\* minWait: backoffDurations[backoffIndex], the index being the retry count
\* capped at the last one
MinWait(retryCount) ==
    LET backoffIndex == IF retryCount >= Len(BackoffDurations)
                        THEN Len(BackoffDurations) - 1
                        ELSE retryCount
    IN  BackoffDurations[backoffIndex + 1]

\* time.Since(t)
Since(t) == clock - t

\* the clock of the client advances
ClockTick ==
    /\ clock < MaxClock
    /\ clock' = clock + 1
    /\ UNCHANGED <<sessions, heap, defaultCommand, now, calls, pc, arg, sess, cmdline, started,
                   ret, ctx0, message, proc, mutex, loopVars, count, serverVars,
                   requestedSessions, requested>>

\* Client.shouldRequestSession, whole body under requestedSessionMutex
ShouldRequestSession(sessionID) ==
    LET exists == sessionID \in DOMAIN requestedSessions
        info == requestedSessions[sessionID]
        refused == exists /\ Since(info.lastRequested) < MinWait(info.retryCount)
        updated == IF exists
                   THEN [requestedSessions EXCEPT ![sessionID] =
                            [lastRequested |-> clock, retryCount |-> info.retryCount + 1]]
                   ELSE [sid \in DOMAIN requestedSessions \cup {sessionID} |->
                            IF sid = sessionID
                            THEN [lastRequested |-> clock, retryCount |-> 0]
                            ELSE requestedSessions[sid]]
        old == {sid \in DOMAIN updated : Since(updated[sid].lastRequested) > OldEntryAge}
    IN  /\ IF refused
           THEN /\ requested' = [sessionID |-> sessionID, ok |-> FALSE]
                /\ UNCHANGED requestedSessions
           ELSE /\ requested' = [sessionID |-> sessionID, ok |-> TRUE]
                /\ requestedSessions' = Without(updated, old)
        /\ UNCHANGED <<sessions, heap, defaultCommand, now, calls, pc, arg, sess, cmdline,
                       started, ret, ctx0, message, proc, mutex, loopVars, count, serverVars,
                       clock>>

NextRequest ==
    \/ ClockTick
    \/ \E sessionID \in SessionIDs : ShouldRequestSession(sessionID)

SpecRequest == Init /\ [][NextRequest]_vars

\* The server handling the commands of two senders where the first event
\* has any of several event IDs, among them one that is nothing but the
\* sigil, and later messages, replies or not, have an event ID of their own.
KeyRoots == {T1, T2, <<"$">>}

KeyMessages ==
    { [sender |-> u, prefixed |-> TRUE, cmdName |-> <<"p">>, args |-> <<"x">>,
       inReplyTo |-> i, threadRoot |-> Empty, eventID |-> e] :
         u \in Users, i \in {Empty, ReplyTo},
         e \in (IF heap = << >> THEN KeyRoots ELSE {FreshEventID}) }

NextKey ==
    \/ Tick
    \/ \E m \in KeyMessages : HandleMessage(Caller, m)
    \/ HandleGetOrCreate(Caller)
    \/ HandleExecute(Caller)
    \/ ExecDone(Caller, "ok", <<"o">>)
    \/ ExecReturn(Caller)
    \/ Reply(Caller)
    \/ HandleReturn(Caller)

SpecKey == InitServer /\ [][NextKey]_vars

\* The server handling the commands of one sender whose executions succeed
\* with or without output, fail, or time out.
ReplyMessages ==
    { [sender |-> UA, prefixed |-> TRUE, cmdName |-> n, args |-> <<"x">>, inReplyTo |-> i,
       threadRoot |-> Empty, eventID |-> FreshEventID] :
         n \in {<<"p">>, <<"c">>}, i \in {Empty, ReplyTo} }

NextReply ==
    \/ Tick
    \/ \E m \in ReplyMessages : HandleMessage(Caller, m)
    \/ HandleGetOrCreate(Caller)
    \/ HandleExecute(Caller)
    \/ \E how \in {"ok", "failed", "timeout"}, out \in {Empty, <<"o">>} :
          ExecDone(Caller, how, out)
    \/ ExecTimeout(Caller)
    \/ ExecReturn(Caller)
    \/ Reply(Caller)
    \/ HandleReturn(Caller)

SpecReply == InitServer /\ [][NextReply]_vars

\* A sequential caller that creates sessions of two users, in a thread or
\* not, and asks for the most recent session of a user, while sweeps run.
NextRecent ==
    \/ Tick
    \/ \E r \in {T1, Empty}, u \in Users : GetOrCreateSession(Caller, r, u, TplA)
    \/ \E u \in Users : GetSessionForUser(Caller, u)
    \/ Discard(Caller)
    \/ Cleanup

SpecRecent == Init /\ [][NextRecent]_vars

\* The manager with its background loop: one caller creates sessions and
\* stops the manager while the ticker and cleanupLoop run; a panic ends the
\* program.
Alive == \A t \in Threads : pc[t] # "panic"

NextLoop ==
    \/ Alive /\ Tick
    \/ \E r \in {T1, Empty} : Alive /\ GetOrCreateSession(Caller, r, UA, TplA)
    \/ Alive /\ Discard(Caller)
    \/ Alive /\ TickerFire
    \/ Alive /\ LoopTick
    \/ Alive /\ LoopCleanup
    \/ Alive /\ LoopStop
    \/ Alive /\ Stop(Caller)

SpecLoop == Init /\ [][NextLoop]_vars

\* The manager with its background loop, the Cleanup pass taken step by
\* step: a caller creates and looks up sessions, counts them and stops the
\* manager while a pass may be under way.
NextPass ==
    \/ Alive /\ Tick
    \/ \E r \in {T1, Empty} : Alive /\ GetOrCreateSession(Caller, r, UA, TplA)
    \/ Alive /\ GetSession(Caller, T1, UA)
    \/ Alive /\ GetSessionForUser(Caller, UA)
    \/ Alive /\ GetSessionCount(Caller)
    \/ Alive /\ Discard(Caller)
    \/ Alive /\ TickerFire
    \/ Alive /\ LoopTick
    \/ Alive /\ PassBegin
    \/ Alive /\ PassStep
    \/ Alive /\ PassEnd
    \/ Alive /\ LoopStop
    \/ Alive /\ Stop(Caller)

SpecPass == Init /\ [][NextPass]_vars

\* One caller creating sessions, letting time pass, sweeping and looking the
\* sessions up, as TestCleanup and TestGetSession do.
SweepRoots == {T1, Empty}

NextSweep ==
    \/ Tick
    \/ \E r \in SweepRoots, c \in {Empty, TplA} : GetOrCreateSession(Caller, r, UA, c)
    \/ \E r \in SweepRoots : GetSession(Caller, r, UA)
    \/ CallCleanup(Caller)
    \/ Discard(Caller)

SpecSweep == Init /\ [][NextSweep]_vars

\* ----------------------------------------------------------------- claims

\* the goroutines that are executing, or waiting to execute, on a session
\* they got from GetOrCreateSession
Busy == { t \in Threads : pc[t] \in {"got", "running", "ret"} }

\* inside ExecuteCommand with the session lock taken
InCall(t) == pc[t] \in {"running", "ret"}

\* the records in use: in the map, or held by a busy goroutine
InUse == Range(sessions) \cup { sess[t] : t \in Busy }

\* C1: in every reachable state no two distinct Session records in use (in
\* the store's map, or held by a caller that is executing or waiting to
\* execute on it) have the same key.
C1_OneLiveSessionPerKey ==
    \A r1 \in InUse, r2 \in InUse : heap[r1].ID = heap[r2].ID => r1 = r2

\* C2: two ExecuteCommand calls on the same Session never interleave: a call
\* that is past the lock is the holder of its session's lock, no other call
\* is past the lock of the same Session, and while its command runs the
\* session's context is still the one it took when it got the lock (the value
\* it expanded), so the other call reads either that or the complete output.
C2_ExecutionsSerialize ==
    \A t \in Threads :
        InCall(t) =>
            /\ heap[sess[t]].Mutex = t
            /\ \A u \in Threads \ {t} : InCall(u) => sess[u] # sess[t]
            /\ pc[t] = "running" => heap[sess[t]].Context = ctx0[t]
            /\ heap[sess[t]].Context \in {ctx0[t], ret[t].out}

\* C2 witness: one call runs its command on a Session while another call on
\* the same Session waits for the lock.
C2_Witness ==
    \E t \in Threads, u \in Threads :
        /\ t # u
        /\ pc[t] = "running"
        /\ pc[u] = "got"
        /\ sess[u] = sess[t]

\* C3: for any session key at most one external command started by
\* ExecuteCommand is running at any time.
C3_OneProcessPerKey ==
    \A t \in Threads, u \in Threads :
        (t # u /\ pc[t] = "running" /\ pc[u] = "running")
            => heap[sess[t]].ID # heap[sess[u]].ID

\* C4: when ExecuteCommand is about to return an error (no template, command
\* failed, timed out) the session's context is the one from before the call
\* and the returned output is empty.
C4_FailureKeepsContext ==
    \A t \in Threads :
        (pc[t] = "ret" /\ ret[t].err # NoError) =>
            /\ heap[sess[t]].Context = ctx0[t]
            /\ ret[t].out = Empty

\* C4 witness: a call fails on a session that already has a context.
C4_Witness ==
    \E t \in Threads :
        /\ pc[t] = "ret"
        /\ ret[t].err = ErrFailed
        /\ ctx0[t] # Empty

\* C5: a successful ExecuteCommand overwrites the context with exactly the
\* captured output and returns the same text; the context changes in no
\* other step; and the context substituted at the start of a call is the
\* session's context at that moment, so the next execution substitutes the
\* output of the last successful one.
C5_ContextIsLastOutput ==
    [][ /\ \A t \in Threads :
              (pc[t] = "running" /\ pc'[t] = "ret" /\ ret'[t].err = NoError)
                  => heap'[sess[t]].Context = ret'[t].out
        /\ \A r \in DOMAIN heap \cap DOMAIN heap' :
              heap'[r].Context # heap[r].Context
                  => \E t \in Threads :
                        /\ pc[t] = "running" /\ sess[t] = r
                        /\ pc'[t] = "ret" /\ ret'[t].err = NoError
        /\ \A t \in Threads :
              (pc[t] = "got" /\ pc'[t] = "running")
                  => \E m \in Messages :
                        cmdline'[t] = Expand(EffectiveTemplate(heap[sess[t]]), m,
                                             heap[sess[t]].Context,
                                             heap[sess[t]].SessionFile)
      ]_vars

\* C5 witness: a second successful execution replaced a non-empty context by
\* a different output.
C5_Witness ==
    \E t \in Threads :
        /\ pc[t] = "ret"
        /\ ret[t].err = NoError
        /\ ctx0[t] # Empty
        /\ ctx0[t] # ret[t].out
        /\ heap[sess[t]].Context = ret[t].out

\* the session the sequential caller holds after GetOrCreateSession returned
Got == heap[sess[Caller]]

\* a step in which the caller's GetOrCreateSession call is made
CallerResolves == pc[Caller] = "idle" /\ pc'[Caller] = "got"

\* a thread root with every "$" removed and every "-" replaced by "_"
Sanitized(root) ==
    LET Ch(c) == IF c = "-" THEN "_" ELSE c
        keep == SelectSeq(root, LAMBDA c : c # "$")
    IN  [i \in 1..Len(keep) |-> Ch(keep[i])]

C7_OwnerIsLastSender ==
    pc[Caller] = "got" => Got.UserID = arg[Caller].user

\* C8 as claimed: the record returned for a thread root is never the record
\* of another thread root.
C8_DistinctRootsDistinctSessions ==
    (pc[Caller] = "got" /\ arg[Caller].root # Empty /\ Got.ThreadRootEvent # Empty)
        => Got.ThreadRootEvent = arg[Caller].root

\* C8 amended: the record returned for a thread root has the sanitized root
\* as its key and is the record of no other key of the map, so two roots
\* with different sanitized forms get distinct records with distinct keys
\* (and two roots with the same sanitized form share one); and a step
\* changes the context only of the record the running command is executed on.
C8_SanitizedRootsDistinctSessions ==
    [][ /\ (pc'[Caller] = "got" /\ arg'[Caller].root # Empty) =>
              /\ heap'[sess'[Caller]].ID = Sanitized(arg'[Caller].root)
              /\ \A k \in DOMAIN sessions' :
                    /\ heap'[sessions'[k]].ID = k
                    /\ k # Sanitized(arg'[Caller].root) => sessions'[k] # sess'[Caller]
        /\ \A r \in DOMAIN heap \cap DOMAIN heap' :
              heap'[r].Context # heap[r].Context =>
                  pc[Caller] = "running" /\ sess[Caller] = r
      ]_vars

\* C8 witness: two sessions of two thread roots are in the map, the caller
\* holds one of them, and a command changed the context of the other only.
C8_Witness ==
    /\ pc[Caller] = "got"
    /\ arg[Caller].root # Empty
    /\ Got.Context = Empty
    /\ \E k \in DOMAIN sessions :
          /\ sessions[k] # sess[Caller]
          /\ heap[sessions[k]].ThreadRootEvent # Empty
          /\ heap[sessions[k]].Context # Empty

\* C9: with an empty thread root the session returned to an owner has the
\* key derived from that owner and, being a non-threaded session, is the
\* session of that owner and of no other.
C9_NonThreadedPerOwner ==
    (pc[Caller] = "got" /\ arg[Caller].root = Empty /\ Got.ThreadRootEvent = Empty)
        => Got.UserID = arg[Caller].user

\* C10: a call with a thread root never returns a session created by a call
\* without one, and a call without a thread root never returns a session
\* created for a thread root.
C10_ThreadedApartFromNonThreaded ==
    pc[Caller] = "got" => ((arg[Caller].root = Empty) <=> (Got.ThreadRootEvent = Empty))

\* the keys a sweep at the current time removes
Idle == { k \in DOMAIN sessions : now - heap[sessions[k]].LastActivity > SessionTimeout }

\* C11: a Cleanup sweep removes exactly the sessions idle for more than the
\* threshold (the count drops by their number) and leaves every other entry
\* and its record as they were; a GetSession right after the sweep returns
\* nil for a key that is no longer in the map and the kept record otherwise.
C11_SweepRemovesExactlyIdle ==
    [][ /\ (pc[Caller] \in {"got", "looked"} /\ pc'[Caller] = "swept") =>
              /\ DOMAIN sessions' = DOMAIN sessions \ Idle
              /\ Cardinality(DOMAIN sessions') =
                    Cardinality(DOMAIN sessions) - Cardinality(Idle)
              /\ \A k \in DOMAIN sessions' :
                    /\ sessions'[k] = sessions[k]
                    /\ heap'[sessions'[k]] = heap[sessions[k]]
        /\ (pc[Caller] = "swept" /\ pc'[Caller] = "looked") =>
              LET key == GetSessionKey(arg'[Caller].root, arg'[Caller].user)
              IN  /\ sessions' = sessions
                  /\ key \notin DOMAIN sessions => sess'[Caller] = Nil
                  /\ key \in DOMAIN sessions =>
                        /\ sess'[Caller] = sessions[key]
                        /\ heap'[sess'[Caller]] = heap[sessions[key]]
      ]_vars

\* C11 witness: a sweep has removed the session the caller looked up before
\* (it was idle for longer than the threshold) and kept a session that was
\* idle for exactly the threshold.
C11_Witness ==
    /\ pc[Caller] = "swept"
    /\ sess[Caller] # Nil
    /\ heap[sess[Caller]].ID \notin DOMAIN sessions
    /\ now - heap[sess[Caller]].LastActivity > SessionTimeout
    /\ \E k \in DOMAIN sessions : now - heap[sessions[k]].LastActivity = SessionTimeout

\* C12: an ExecuteCommand call that takes the lock expands the session's
\* template when it is non-empty and the default template otherwise, and
\* when both are empty it returns the "no command template configured"
\* error with no command line built and no process started.
C12_TemplateResolution ==
    [][ \A t \in Threads :
          (pc[t] = "got" /\ pc'[t] \in {"running", "ret"}) =>
              LET session == heap[sess[t]]
                  Expanded(tpl) ==
                      /\ pc'[t] = "running"
                      /\ \E m \in Messages :
                            cmdline'[t] = Expand(tpl, m, session.Context, session.SessionFile)
              IN  /\ session.Command # Empty => Expanded(session.Command)
                  /\ (session.Command = Empty /\ defaultCommand # Empty)
                        => Expanded(defaultCommand)
                  /\ (session.Command = Empty /\ defaultCommand = Empty) =>
                        /\ pc'[t] = "ret"
                        /\ ret'[t] = [out |-> Empty, err |-> ErrNoTemplate]
                        /\ cmdline'[t] = Empty
      ]_vars

\* C12 witness: a command built from the default template runs on a session
\* that has no template of its own.
C12_Witness ==
    \E t \in Threads :
        /\ pc[t] = "running"
        /\ heap[sess[t]].Command = Empty
        /\ defaultCommand # Empty
        /\ \E m \in Messages :
              cmdline[t] = Expand(defaultCommand, m, ctx0[t], heap[sess[t]].SessionFile)

\* What sh -c makes of a command line: the words it splits the line into
\* (single quotes keep everything up to the next single quote, a backslash
\* outside quotes keeps the next character, unquoted blanks separate
\* words), and whether a shell metacharacter is met outside quotes or a
\* quote is left open.
ShMeta == {";", "&", "|", "$", "<", ">", "(", ")"}

RECURSIVE ShScan(_, _, _, _, _, _)
ShScan(s, i, quoted, inWord, word, acc) ==
    IF i > Len(s)
    THEN [words |-> IF inWord THEN Append(acc.words, word) ELSE acc.words,
          meta |-> acc.meta \/ quoted]
    ELSE IF quoted
    THEN IF s[i] = "'"
         THEN ShScan(s, i + 1, FALSE, TRUE, word, acc)
         ELSE ShScan(s, i + 1, TRUE, TRUE, Append(word, s[i]), acc)
    ELSE IF s[i] = "'"
    THEN ShScan(s, i + 1, TRUE, TRUE, word, acc)
    ELSE IF s[i] = "\\"
    THEN IF i < Len(s)
         THEN ShScan(s, i + 2, FALSE, TRUE, Append(word, s[i + 1]), acc)
         ELSE ShScan(s, i + 1, FALSE, TRUE, word, [acc EXCEPT !.meta = TRUE])
    ELSE IF s[i] = " "
    THEN ShScan(s, i + 1, FALSE, FALSE, Empty,
                [acc EXCEPT !.words = IF inWord THEN Append(@, word) ELSE @])
    ELSE ShScan(s, i + 1, FALSE, TRUE, Append(word, s[i]),
                [acc EXCEPT !.meta = @ \/ s[i] \in ShMeta])

ShWords(s) == ShScan(s, 1, FALSE, FALSE, Empty, [words |-> << >>, meta |-> FALSE])

\* C13: in the command line built from the template "p {{.CONTEXT}}
\* {{.MESSAGE}} {{.SESSION}}" every substituted value is one shell word equal
\* to the value, and no shell metacharacter is outside quotes.
C13_ValuesAreSingleWords ==
    \A t \in Threads :
        (pc[t] = "running" /\ EffectiveTemplate(heap[sess[t]]) = TplB) =>
            ShWords(cmdline[t]) =
                [words |-> << <<"p">>, ctx0[t], message[t], heap[sess[t]].SessionFile >>,
                 meta |-> FALSE]

\* the value substituted for the marker that starts at position i of the
\* template, if one does
MarkerAt(tpl, i, msg, context, sessionFile) ==
    IF StartsWithAt(tpl, i, MESSAGE) THEN <<MESSAGE, shellEscape(msg)>>
    ELSE IF StartsWithAt(tpl, i, CONTEXT) THEN <<CONTEXT, shellEscape(context)>>
    ELSE IF StartsWithAt(tpl, i, SESSION) THEN <<SESSION, shellEscape(sessionFile)>>
    ELSE << >>

\* the template with its markers replaced in one pass from position i on
RECURSIVE ExpandOnceFrom(_, _, _, _, _)
ExpandOnceFrom(tpl, i, msg, context, sessionFile) ==
    IF i > Len(tpl) THEN Empty
    ELSE LET m == MarkerAt(tpl, i, msg, context, sessionFile)
         IN  IF m # << >>
             THEN m[2] \o ExpandOnceFrom(tpl, i + Len(m[1]), msg, context, sessionFile)
             ELSE <<tpl[i]>> \o ExpandOnceFrom(tpl, i + 1, msg, context, sessionFile)

\* the three replacements made in the order session file, context, message
ExpandReversed(tpl, msg, context, sessionFile) ==
    ReplaceAll(ReplaceAll(ReplaceAll(tpl, SESSION, shellEscape(sessionFile)),
                          CONTEXT, shellEscape(context)),
               MESSAGE, shellEscape(msg))

\* C14: the command line is the template with the markers of the template
\* itself replaced in one pass, and it is the same when the three
\* placeholders are substituted in the opposite order.
C14_SinglePassExpansion ==
    \A t \in Threads :
        pc[t] = "running" =>
            LET tpl == EffectiveTemplate(heap[sess[t]])
                file == heap[sess[t]].SessionFile
            IN  /\ cmdline[t] = ExpandOnceFrom(tpl, 1, message[t], ctx0[t], file)
                /\ cmdline[t] = ExpandReversed(tpl, message[t], ctx0[t], file)

\* C15: once Stop has returned (the stop channel is closed) cleanupLoop
\* takes no further tick, so it starts no Cleanup pass.
C15_NoPassAfterStop ==
    [][ stopCleanup = "closed" => ~(loop = "select" /\ loop' = "cleanup") ]_vars

\* C16: while a goroutine runs its external process, the store is free: a
\* Cleanup pass can run, an idle goroutine can complete GetOrCreateSession
\* (for any key), GetSession, GetSessionForUser and GetSessionCount, a
\* goroutine that holds another session can take that session's lock and
\* start its command, and a command running on another session can finish.
C16_ExecutionLeavesStoreFree ==
    \A t \in Threads :
        pc[t] = "running" =>
            /\ ENABLED Cleanup
            /\ \A u \in Threads \ {t} :
                  /\ pc[u] = "idle" =>
                        /\ ENABLED GetSession(u, T1, UA)
                        /\ ENABLED GetSessionForUser(u, UA)
                        /\ ENABLED GetSessionCount(u)
                        /\ calls < MaxCalls =>
                              \A r \in ParRoots : ENABLED GetOrCreateSession(u, r, UA, TplA)
                  /\ (pc[u] = "got" /\ sess[u] # sess[t]) =>
                        \A m \in Messages : ENABLED ExecStart(u, m)
                  /\ pc[u] = "running" => ENABLED ExecDone(u, "ok", <<"o">>)

\* C16 witness: two commands run at the same time on two sessions.
C16_Witness ==
    \E t \in Threads, u \in Threads :
        /\ pc[t] = "running"
        /\ pc[u] = "running"
        /\ heap[sess[t]].ID # heap[sess[u]].ID

\* goroutine t is about to write LastActivity of the record r in
\* ExecuteCommand, holding r's own lock and not the store lock
WritesUnderSessionLock(t, r) ==
    /\ pc[t] = "got"
    /\ sess[t] = r
    /\ \E m \in Messages : ENABLED ExecStart(t, m)

\* a Cleanup pass is about to read LastActivity of the record r, or a
\* GetOrCreateSession call of another goroutine to write it, holding the
\* store lock and not r's own lock
AccessedUnderStoreLock(t, r) ==
    /\ r \in Range(sessions)
    /\ \/ ENABLED Cleanup
       \/ \E u \in Threads \ {t} :
             ENABLED GetOrCreateSession(u, heap[r].ThreadRootEvent, heap[r].UserID, Empty)

\* C17: in no reachable state can a goroutine write a field of a session
\* under the session's lock only while another can read or write the same
\* field of the same session under the store lock only.
C17_NoUnsynchronizedAccess ==
    \A t \in Threads : \A r \in DOMAIN heap :
        ~(WritesUnderSessionLock(t, r) /\ AccessedUnderStoreLock(t, r))

\* C18: a call that has taken the session lock eventually returns; when it
\* is about to return after its command was started, the process is not
\* running any more: it has exited and its result decided the outcome, or
\* the timeout passed and it was killed, and then the call fails with the
\* "command timed out" error, which is not the "command failed" error.
C18_ExecutionReturns ==
    /\ \A t \in Threads : InCall(t) ~> (pc[t] = "idle")
    /\ [](\A t \in Threads :
            (pc[t] = "ret" /\ ret[t].err # ErrNoTemplate) =>
                /\ proc[t] \in {"exited", "killed"}
                /\ proc[t] = "killed" =>
                      /\ now - started[t] >= CmdTimeout
                      /\ ret[t] = [out |-> Empty, err |-> ErrTimedOut]
                      /\ ret[t].err # ErrFailed)

\* C18 witness: the timeout fired on a running command, the process was
\* killed and the call is about to return the timeout error.
C18_Witness ==
    /\ pc[Caller] = "ret"
    /\ proc[Caller] = "killed"
    /\ ret[Caller].err = ErrTimedOut

\* C19: with enable_commands false no message creates a session or starts a
\* command; a handler enters command execution only for a message with the
\* command prefix while enable_commands is true, and a handler that does
\* not enter it dispatches the message to the webhook and does nothing else.
C19_CommandsOnlyWhenEnabled ==
    [][ /\ ~enableCommands =>
              /\ sessions' = << >>
              /\ \A t \in Threads : proc'[t] = "none" /\ pc'[t] \in {"idle", "replied"}
        /\ \A t \in Threads :
              (pc[t] = "idle" /\ pc'[t] # "idle") =>
                  IF enableCommands /\ inbound'[t].prefixed
                  THEN sent'[t] # WebhookDispatch
                  ELSE /\ pc'[t] = "replied"
                       /\ sent'[t] = WebhookDispatch
                       /\ sessions' = sessions /\ heap' = heap
      ]_vars

\* C19 witness: with enable_commands false a message that has the command
\* prefix was dispatched to the webhook.
C19_Witness ==
    \E t \in Threads :
        /\ ~enableCommands
        /\ pc[t] = "replied"
        /\ inbound[t].prefixed
        /\ sent[t] = WebhookDispatch

\* C20: a handler of a command sent as a reply in a thread whose session is
\* live passes the key of that session to GetOrCreateSession and executes
\* on that session.
C20_ReplyContinuesItsThread ==
    \A t \in Threads :
        LET m == inbound[t]
            key == GetSessionKey(m.threadRoot, m.sender)
        IN  (m.inReplyTo # Empty /\ m.threadRoot # Empty /\ key \in DOMAIN sessions) =>
                /\ pc[t] = "resolved" => GetSessionKey(arg[t].root, arg[t].user) = key
                /\ pc[t] \in {"got", "running"} => sess[t] = sessions[key]

\* C21: a command that is neither in a thread nor a reply runs on the session
\* keyed by its sender's user ID, so that two successive such commands of
\* one user share a session and the second sees the first one's output.
C21_NonThreadedKeyedBySender ==
    \A t \in Threads :
        LET m == inbound[t]
        IN  (m.threadRoot = Empty /\ m.inReplyTo = Empty /\ pc[t] \in {"got", "running"}) =>
                heap[sess[t]].ID = GetSessionKey(Empty, m.sender)

\* the message is a reply (inReplyToEventID begins with "$")
IsReply(m) == m.inReplyTo # Empty /\ m.inReplyTo[1] = "$"

C24_GetSessionReadOnly ==
    [][ (pc[Caller] \in {"idle", "swept"} /\ pc'[Caller] = "looked") =>
          LET key == GetSessionKey(arg'[Caller].root, arg'[Caller].user)
          IN  /\ sessions' = sessions
              /\ \A k \in DOMAIN sessions : heap'[sessions[k]] = heap[sessions[k]]
              /\ Idle' = Idle
              /\ (sess'[Caller] = Nil) <=> (key \notin DOMAIN sessions)
              /\ key \in DOMAIN sessions => sess'[Caller] = sessions[key]
      ]_vars

\* a session that was idle for exactly the threshold when it was looked up
\* has been removed by the sweep one tick later
C24_Witness ==
    /\ pc[Caller] = "swept"
    /\ sess[Caller] # Nil
    /\ arg[Caller].tpl = Empty /\ arg[Caller].user = UA
    /\ heap[sess[Caller]].ID \notin DOMAIN sessions
    /\ now - heap[sess[Caller]].LastActivity = SessionTimeout + 1

\* C25: a GetOrCreateSession call returns a session, never nil; for a key
\* that is not in the map it adds one entry under the resolved key, the
\* count growing by one, whose record has that key, the owner, thread root
\* and template of the call, an empty context and the side file
\* <session directory>/thread_<key>.jsonl.
C25_CreateInsertsNewSession ==
    [][ (pc[Caller] = "idle" /\ pc'[Caller] = "got") =>
          LET a == arg'[Caller]
              key == GetSessionKey(a.root, a.user)
              s == sess'[Caller]
          IN  /\ s # Nil /\ s \in DOMAIN heap'
              /\ key \notin DOMAIN sessions =>
                    /\ DOMAIN sessions' = DOMAIN sessions \cup {key}
                    /\ Cardinality(DOMAIN sessions') = Cardinality(DOMAIN sessions) + 1
                    /\ \A k \in DOMAIN sessions : sessions'[k] = sessions[k]
                    /\ sessions'[key] = s
                    /\ s \notin Range(sessions)
                    /\ heap'[s].ID = key
                    /\ heap'[s].UserID = a.user
                    /\ heap'[s].ThreadRootEvent = a.root
                    /\ heap'[s].Context = Empty
                    /\ heap'[s].Command = a.tpl
                    /\ heap'[s].SessionFile =
                          SessionDir \o <<"/", "t", "h", "r", "e", "a", "d", "_">> \o key
                                     \o <<".", "j", "s", "o", "n", "l">>
      ]_vars

\* a second session has been created, for a non-threaded call with a template
C25_Witness ==
    /\ pc[Caller] = "got"
    /\ Cardinality(DOMAIN sessions) = 2
    /\ arg[Caller].root = Empty /\ arg[Caller].tpl # Empty
    /\ heap[sess[Caller]].Command = arg[Caller].tpl
    /\ heap[sess[Caller]].Context = Empty
    /\ sessions[GetSessionKey(Empty, arg[Caller].user)] = sess[Caller]

\* the sessions in the map whose owner is userID
OwnedBy(userID) == { r \in Range(sessions) : heap[r].UserID = userID }

\* C26: a GetSessionForUser call returns nil exactly when no session in the
\* map has the owner asked for, and otherwise a session in the map with that
\* owner than which no other session of the owner was active later; the map
\* and every record stay as they were.
C26_MostRecentOfOwner ==
    [][ (pc[Caller] = "idle" /\ pc'[Caller] = "looked") =>
          LET mine == OwnedBy(arg'[Caller].user)
              s == sess'[Caller]
          IN  /\ (s = Nil) <=> (mine = {})
              /\ s # Nil =>
                    /\ s \in mine
                    /\ \A q \in mine : heap[q].LastActivity <= heap[s].LastActivity
              /\ sessions' = sessions
              /\ mutex' = mutex
              /\ \A r \in Range(sessions) : heap'[r] = heap[r]
      ]_vars

\* the later of two sessions of one owner has been returned
C26_Witness ==
    /\ pc[Caller] = "looked"
    /\ sess[Caller] # Nil
    /\ sess[Caller] \in OwnedBy(arg[Caller].user)
    /\ \E q \in OwnedBy(arg[Caller].user) :
          heap[q].LastActivity < heap[sess[Caller]].LastActivity

\* an owner identity with every ":" replaced by "_"
Underscored(userID) ==
    [i \in 1..Len(userID) |-> IF userID[i] = ":" THEN "_" ELSE userID[i]]

\* C27: the key a GetOrCreateSession call resolves to is, for a non-empty
\* thread root, the root with every "$" removed and every "-" replaced by
\* "_", whoever the owner is, and for an empty thread root the owner with
\* every ":" replaced by "_"; the same arguments give the same key again,
\* and so does every thread root that sanitizes to the same string.
C27_KeyDerivation ==
    [][ CallerResolves =>
          LET a == arg'[Caller]
              key == IF a.root # Empty THEN Sanitized(a.root) ELSE Underscored(a.user)
          IN  /\ key \in DOMAIN sessions' /\ sessions'[key] = sess'[Caller]
              /\ GetSessionKey(a.root, a.user) = key
              /\ a.root # Empty => \A u \in Users \cup {Empty} : GetSessionKey(a.root, u) = key
              /\ \A r \in ThreadRoots :
                    (a.root # Empty /\ Sanitized(r) = Sanitized(a.root)) =>
                        \A u \in Users : GetSessionKey(r, u) = key
      ]_vars

\* a call with one thread root has resolved to the session created with
\* another thread root that sanitizes to the same string
C27_Witness ==
    /\ pc[Caller] = "got"
    /\ arg[Caller].root # Empty
    /\ heap[sess[Caller]].ThreadRootEvent # Empty
    /\ heap[sess[Caller]].ThreadRootEvent # arg[Caller].root
    /\ Sanitized(heap[sess[Caller]].ThreadRootEvent) = Sanitized(arg[Caller].root)
    /\ Sanitized(arg[Caller].root) # arg[Caller].root

\* the lock of every session is free or held by a goroutine that is inside
\* ExecuteCommand on that session
LockHeldOnlyInCall ==
    \A r \in DOMAIN heap :
        heap[r].Mutex # "unlocked" =>
            /\ heap[r].Mutex \in Threads
            /\ sess[heap[r].Mutex] = r
            /\ InCall(heap[r].Mutex)

\* C28: when an ExecuteCommand call returns, whatever it returns, the lock
\* of its session is free; a lock is held only while a call on the session
\* is in progress, so a goroutine that holds the session can take the lock
\* (for ExecuteCommand, UpdateContext or GetContext) unless such a call is
\* in progress.
C28_LockReleasedOnReturn ==
    [][ /\ \A t \in Threads :
              (pc[t] = "ret" /\ pc'[t] # "ret" /\ sess[t] \in DOMAIN heap') =>
                  heap'[sess[t]].Mutex = "unlocked"
        /\ LockHeldOnlyInCall /\ LockHeldOnlyInCall'
        /\ \A t \in Threads :
              (pc'[t] = "got" /\ ~\E u \in Threads : InCall(u)' /\ sess'[u] = sess'[t]) =>
                  MutexFree(heap[sess[t]])'
      ]_vars

\* a goroutine has taken the lock of a session on which an earlier call
\* has returned with success
C28_Witness ==
    \E t \in Threads :
        /\ pc[t] = "running"
        /\ heap[sess[t]].Mutex = t
        /\ heap[sess[t]].Context # Empty

\* C29: a key enters the map only by a GetOrCreateSession call that resolves
\* to it, and leaves it only by a sweep when its session has been idle for
\* longer than the threshold; while it stays, it keeps its record, which
\* changes only by a step of a call on it. Every entry k maps to a record
\* whose ID is k; the ID and the side file of a record never change, and
\* the side file is the one derived from the ID.
C29_SessionLifecycle ==
    [][ /\ \A k \in DOMAIN sessions' \ DOMAIN sessions :
              \E t \in Threads :
                  /\ pc[t] = "idle" /\ pc'[t] = "got"
                  /\ GetSessionKey(arg'[t].root, arg'[t].user) = k
                  /\ sess'[t] = sessions'[k]
        /\ \A k \in DOMAIN sessions \ DOMAIN sessions' :
              /\ now - heap[sessions[k]].LastActivity > SessionTimeout
              /\ pc' = pc /\ sess' = sess
        /\ \A k \in DOMAIN sessions \cap DOMAIN sessions' :
              /\ sessions'[k] = sessions[k]
              /\ heap'[sessions[k]] # heap[sessions[k]] =>
                    \E t \in Threads :
                        /\ pc'[t] # pc[t]
                        /\ (sess'[t] = sessions[k] \/ sess[t] = sessions[k])
        /\ \A k \in DOMAIN sessions' : heap'[sessions'[k]].ID = k
        /\ \A r \in DOMAIN heap \cap DOMAIN heap' :
              /\ heap'[r].ID = heap[r].ID
              /\ heap'[r].SessionFile = heap[r].SessionFile
        /\ \A r \in DOMAIN heap' : heap'[r].SessionFile = SessionFileOf(heap'[r].ID)
      ]_vars

\* a key has left the map by a sweep while a command ran on its session and
\* has entered it again with a new record
C29_Witness ==
    \E t \in Threads :
        /\ pc[t] = "running"
        /\ heap[sess[t]].ID \in DOMAIN sessions
        /\ sessions[heap[sess[t]].ID] # sess[t]

\* C30: an ExecuteCommand call sets LastActivity of its session to the
\* current time in the step in which it takes the lock, also when it then
\* returns the no-template error; the end of the command and the return of
\* the call leave LastActivity as it is, and so does a call that waits for
\* the lock: LastActivity changes only when a call takes the lock or when
\* GetOrCreateSession resolves to the session.
C30_LastActivityAtCallStart ==
    [][ /\ \A t \in Threads :
              /\ (pc[t] = "got" /\ pc'[t] \in {"running", "ret"}) =>
                    heap'[sess[t]].LastActivity = now
              /\ (pc[t] = "running" /\ pc'[t] = "ret") =>
                    heap'[sess[t]].LastActivity = heap[sess[t]].LastActivity
              /\ (pc[t] = "got" /\ pc'[t] = "got" /\ sess[t] \in DOMAIN heap') =>
                    (heap'[sess[t]].LastActivity # heap[sess[t]].LastActivity =>
                        \E u \in Threads \ {t} : pc'[u] # pc[u] /\ sess'[u] = sess[t])
        /\ \A r \in DOMAIN heap \cap DOMAIN heap' :
              heap'[r].LastActivity # heap[r].LastActivity =>
                  \E t \in Threads :
                      \/ pc[t] = "got" /\ pc'[t] \in {"running", "ret"} /\ sess[t] = r
                      \/ pc[t] = "idle" /\ pc'[t] = "got" /\ sess'[t] = r
      ]_vars

\* a command that started later than its session was created failed later
\* still, and LastActivity is the time the call started
C30_Witness ==
    \E t \in Threads :
        /\ pc[t] = "ret"
        /\ ret[t].err = ErrFailed
        /\ 0 < started[t] /\ started[t] < now
        /\ heap[sess[t]].LastActivity = started[t]
        /\ \A u \in Threads \ {t} : pc[u] = "idle"
        /\ calls = 1

\* C31: while a Cleanup pass is under way it holds the store lock and no
\* GetOrCreateSession, GetSession, GetSessionForUser or GetSessionCount
\* call completes, so each sees the map as it was before the pass or as the
\* pass left it; only the pass changes the map meanwhile. Stop leaves a
\* pass that is under way as it is: the pass can always take its next step,
\* the loop does not stop before the pass has visited every key, and only
\* then is the lock released.
C31_PassIsAtomic ==
    [][ /\ pass.on => mutex = "cleanup"
        /\ \A t \in Threads :
              (pc'[t] # pc[t] /\ pc'[t] \in {"got", "looked"}) => (~pass.on /\ ~pass'.on)
        /\ pass.on => ((count' = count /\ sess' = sess) \/ pc'[Caller] = "idle")
        /\ (pass.on /\ stopCleanup' # stopCleanup) =>
              (pass' = pass /\ loop' = loop /\ mutex' = mutex /\ sessions' = sessions)
        /\ pass.on => (loop' = "cleanup" \/ (loop' = "select" /\ pass.todo = {}))
        /\ (pass.on /\ ~pass'.on) => (pass.todo = {} /\ mutex' = "unlocked")
        /\ (pass.on /\ Alive) => ENABLED (PassStep \/ PassEnd)
      ]_vars

\* Stop has been called while a pass was under way; the pass has removed
\* the session the caller holds and has a key left to visit
C31_Witness ==
    /\ pass.on
    /\ stopCleanup = "closed"
    /\ pass.todo # {}
    /\ sess[Caller] # Nil
    /\ heap[sess[Caller]].ID \notin DOMAIN sessions
    /\ heap[sess[Caller]].ID \notin pass.todo

\* C32: no step removes from the map the session of an ExecuteCommand call
\* whose process is running or which waits for the session lock, so the
\* record that receives the output is the one the next GetOrCreateSession
\* for the key returns.
C32_NoEvictionDuringExecution ==
    [][ \A k \in DOMAIN sessions \ DOMAIN sessions' :
          \A t \in Threads :
              sess[t] = sessions[k] =>
                  ~(pc[t] = "running" \/ (pc[t] = "got" /\ ~MutexFree(heap[sess[t]])))
      ]_vars

\* C33: Stop leaves the map, every session and the store lock as they are,
\* and once the stop channel is closed no key leaves the map except by a
\* Cleanup call of a caller.
C33_StopOnlyHaltsLoop ==
    [][ /\ stopCleanup' # stopCleanup =>
              (sessions' = sessions /\ heap' = heap /\ mutex' = mutex /\ loop' = loop)
        /\ stopCleanup = "closed" =>
              (DOMAIN sessions \subseteq DOMAIN sessions' \/ pc'[Caller] = "swept")
      ]_vars

\* C34: the Stop call that closes the stop channel returns normally and lets
\* cleanupLoop end at its next select; the channel stays closed, and every
\* later Stop call panics on closing it again instead of returning: a
\* caller of Stop panics only that way.
C34_StopOnlyOnce ==
    [][ /\ (stopCleanup = "open" /\ stopCleanup' = "closed") =>
              (pc' = pc /\ sessions' = sessions /\ loop' = loop)
        /\ stopCleanup = "closed" => stopCleanup' = "closed"
        /\ \A t \in Threads :
              (pc'[t] = "panic" /\ pc[t] # "panic") =>
                  (stopCleanup = "closed" /\ pc[t] = "idle")
        /\ (stopCleanup = "closed" /\ pc[Caller] = "idle" /\ Alive) =>
              /\ ENABLED (Stop(Caller) /\ pc'[Caller] = "panic")
              /\ ~ENABLED (Stop(Caller) /\ pc'[Caller] # "panic")
        /\ (stopCleanup = "closed" /\ loop = "select" /\ Alive) => ENABLED LoopStop
      ]_vars

\* the first Stop has ended the loop and a second Stop has panicked
C34_Witness ==
    /\ pc[Caller] = "panic"
    /\ stopCleanup = "closed"
    /\ loop = "stopped"

\* neither a template of the command nor a default command is configured
Unconfigured(m) ==
    /\ ~(m.cmdName \in DOMAIN CommandTemplates /\ CommandTemplates[m.cmdName] # Empty)
    /\ defaultCommand = Empty

\* C35: a handler in command mode whose command has no template and no
\* default sends the one reply "No command template configured" and goes
\* on to return, the map, every session and the call count staying as they
\* are and no process being started; a handler that finds a template
\* resolves with it; so every session record has a non-empty template.
C35_NoTemplateNoSession ==
    [][ /\ \A t \in Threads :
              (pc[t] = "idle" /\ pc'[t] # "idle" /\ enableCommands /\ inbound'[t].prefixed) =>
                  IF Unconfigured(inbound'[t])
                  THEN /\ pc'[t] = "replied"
                       /\ Len(sent'[t]) = 1
                       /\ sent'[t][1].kind = "error" /\ sent'[t][1].err = ErrNotConfigured
                       /\ sessions' = sessions /\ heap' = heap /\ calls' = calls
                       /\ proc' = proc /\ sess' = sess
                  ELSE pc'[t] = "resolved" /\ arg'[t].tpl # Empty
        /\ \A t \in Threads :
              (pc[t] = "replied" /\ sent[t] = ErrorReply(ErrNotConfigured) /\ pc'[t] # pc[t]) =>
                  (pc'[t] = "idle" /\ sessions' = sessions /\ heap' = heap /\ proc' = proc)
        /\ \A r \in DOMAIN heap' : heap'[r].Command # Empty
      ]_vars

\* a reply of a sender who has a session got the error for a command
\* without template
C35_Witness ==
    \E t \in Threads :
        /\ pc[t] = "replied"
        /\ sent[t] = ErrorReply(ErrNotConfigured)
        /\ IsReply(inbound[t])
        /\ MostRecent(inbound[t].sender) # {Nil}

\* the thread root is nothing but "$" characters
OnlySigils(root) == \A i \in 1..Len(root) : root[i] = "$"

\* the key of a thread root stays the same when it is passed as thread root
\* again, whoever the owners are
KeyIsFixedPoint(root) ==
    \A u \in Users, v \in Users :
        GetSessionKey(GetSessionKey(root, u), v) = GetSessionKey(root, u)

\* C36 as stated: the key of every non-empty thread root a session was
\* created with is a fixed point of GetSessionKey.
C36_KeyIdempotent ==
    \A r \in DOMAIN heap :
        heap[r].ThreadRootEvent # Empty => KeyIsFixedPoint(heap[r].ThreadRootEvent)

\* C36 amended: the key of every thread root that has a character other
\* than "$" is a fixed point of GetSessionKey, and a call that is passed the
\* key of a stored session with such a thread root as its thread root
\* resolves to that same session.
C36_KeyIdempotentUnlessOnlySigils ==
    /\ \A r \in DOMAIN heap :
          ~OnlySigils(heap[r].ThreadRootEvent) =>
              /\ KeyIsFixedPoint(heap[r].ThreadRootEvent)
              /\ \A v \in Users : GetSessionKey(heap[r].ID, v) = heap[r].ID
    /\ \A t \in Threads :
          pc[t] = "got" =>
              \A k \in DOMAIN sessions :
                  (arg[t].root = k /\ ~OnlySigils(heap[sessions[k]].ThreadRootEvent)) =>
                      sess[t] = sessions[k]

\* a reply has been resolved, by the key passed back, to the session made
\* for a thread root with "$" and "-" in it
C36_Witness ==
    \E t \in Threads :
        /\ pc[t] = "got"
        /\ IsReply(inbound[t])
        /\ heap[sess[t]].ThreadRootEvent = T1
        /\ arg[t].root = heap[sess[t]].ID
        /\ inbound[t].eventID # T1

\* the wait before the re-request after retryCount allowed ones, in units of
\* 30 seconds: 30 s doubled each time, capped at 300 s
DoublingWait(retryCount) == IF 2 ^ retryCount > 10 THEN 10 ELSE 2 ^ retryCount

\* a shouldRequestSession call that is seen in the state takes this step
RequestStep == clock' = clock /\ (requested' # requested \/ requestedSessions' # requestedSessions)

\* C37: the first request for an ID is allowed and enters it at retry count
\* zero; a re-request is allowed exactly when the wait of 30 s, 60 s, 120 s,
\* 240 s, then 300 s has elapsed since the last allowed request, and then
\* raises the retry count by one; a refused call changes no entry; entries
\* are removed only in an allowed call, and only those more than 10 minutes
\* old.
C37_ThrottledWithBackoff ==
    [][ /\ requestedSessions' # requestedSessions => (RequestStep /\ requested'.ok)
        /\ RequestStep =>
              LET sid == requested'.sessionID
                  now0 == clock
              IN  /\ sid \in SessionIDs
                  /\ sid \notin DOMAIN requestedSessions =>
                        /\ requested'.ok
                        /\ sid \in DOMAIN requestedSessions'
                        /\ requestedSessions'[sid] = [lastRequested |-> now0, retryCount |-> 0]
                  /\ sid \in DOMAIN requestedSessions =>
                        LET k == requestedSessions[sid].retryCount
                            elapsed == now0 - requestedSessions[sid].lastRequested
                        IN  /\ requested'.ok <=> elapsed >= DoublingWait(k)
                            /\ requested'.ok =>
                                  /\ sid \in DOMAIN requestedSessions'
                                  /\ requestedSessions'[sid] =
                                        [lastRequested |-> now0, retryCount |-> k + 1]
                  /\ ~requested'.ok => requestedSessions' = requestedSessions
                  /\ requested'.ok =>
                        \A other \in DOMAIN requestedSessions \ {sid} :
                            IF now0 - requestedSessions[other].lastRequested > 20
                            THEN other \notin DOMAIN requestedSessions'
                            ELSE /\ other \in DOMAIN requestedSessions'
                                 /\ requestedSessions'[other] = requestedSessions[other]
      ]_vars

\* an ID was re-requested after the capped wait, its fifth re-request, while
\* no entry of the other ID is in the map
C37_Witness ==
    \E sid \in SessionIDs, other \in SessionIDs :
        /\ sid # other
        /\ sid \in DOMAIN requestedSessions
        /\ requestedSessions[sid].retryCount >= 5
        /\ other \notin DOMAIN requestedSessions
        /\ requested = [sessionID |-> sid, ok |-> TRUE]

====
